---- MODULE Spec2Model ----
(***************************************************************************)
(* Model of the print-cost estimator: the Tk front end (src/main.py), the  *)
(* folder scanner Calculate (src/src/calculate.py) and the two page        *)
(* classifiers (src/src/get_sizes.py, src/src/check_for_colored.py).       *)
(*                                                                         *)
(* The UI thread and the worker threads are interleaved one step at a      *)
(* time.  The file system, the PDF library and the user are the            *)
(* environment: what they return is chosen when the code asks for it.      *)
(***************************************************************************)
EXTENDS Integers, Sequences, FiniteSets, TLC

\* ------------------------------------------------------------------ bounds

\* Longest folder listing os.listdir may return.
MaxEntries == 2
\* Largest page_count of a document.
MaxPages == 2
\* Number of worker threads the user may start.
MaxRuns == 2
\* Number of Calculate instances the user may create by choosing a folder.
MaxCalcs == 1
\* Number of root.after callbacks the Tk event loop may have pending: how far
\* the UI thread may lag behind the worker.
MaxQueue == 1
\* Largest raster (in pixels) drawn for the colour detector's own check.
MaxPixels == 2
\* Largest page number of a page-size map drawn for the A4-equivalent's own
\* check.
MaxMapPages == 4
\* Largest number of pages the documents of one run have together under the
\* fair specification.
MaxScanPages == 2

\* ------------------------------------------------- get_sizes.py: PageSize

A4 == 0
A3 == 1
A2 == 2
A1 == 3

PageSize == {A4, A3, A2, A1}

\* 0.352778 mm per point, as nanometres per point.
NmPerPt == 352778

\* floor(a * b / 10^12) for 0 <= a, b < 2^31, computed limb by limb so that no
\* intermediate value leaves the 32-bit range of TLC's integers.
MulShift12(a, b) ==
    LET LimbBase == 10000
        a0 == a % LimbBase
        a1 == (a \div LimbBase) % LimbBase
        a2 == a \div (LimbBase * LimbBase)
        b0 == b % LimbBase
        b1 == (b \div LimbBase) % LimbBase
        b2 == b \div (LimbBase * LimbBase)
        c0 == a0 * b0
        c1 == a0 * b1 + a1 * b0 + (c0 \div LimbBase)
        c2 == a0 * b2 + a1 * b1 + a2 * b0 + (c1 \div LimbBase)
    IN  a1 * b2 + a2 * b1 + (c2 \div LimbBase) + a2 * b2 * LimbBase

\* area = width * height * (0.352778 ** 2), in whole mm^2 (rounded down; the
\* thresholds are whole numbers, so area < T iff floor(area) < T).  A negative
\* area is never a whole number for dimensions this small (352778^2 has the
\* factor 2 twice and no factor 5), so its floor is one below the negated
\* floor of its magnitude.
AreaMm2(width, height) ==
    LET abs(x) == IF x < 0 THEN -x ELSE x
        magnitude == MulShift12(abs(width) * NmPerPt, abs(height) * NmPerPt)
    IN  IF width = 0 \/ height = 0 \/ (width < 0) = (height < 0)
        THEN magnitude
        ELSE -magnitude - 1

\* The mutant of classify_page_size: the thresholds are closed above.
classify_page_sizeClosed(page) ==
    LET width  == page.mediabox_size[1]
        height == page.mediabox_size[2]
        area   == AreaMm2(width, height)
    IN  IF area <= 80000 THEN A4
        ELSE IF area <= 150000 THEN A3
        ELSE IF area <= 300000 THEN A2
        ELSE A1

classify_page_size(page) ==
    LET width  == page.mediabox_size[1]
        height == page.mediabox_size[2]
        area   == AreaMm2(width, height)
    IN  IF area < 80000 THEN A4
        ELSE IF area < 150000 THEN A3
        ELSE IF area < 300000 THEN A2
        ELSE A1

\* Counter(page_sizes.values()).get(size, 0)
CountOf(page_sizes, size) ==
    Cardinality({k \in DOMAIN page_sizes : page_sizes[k] = size})

\* The mutant of calculate_a4_equivalent: the multipliers grow by one per
\* size instead of doubling.
calculate_a4_equivalentLinear(page_sizes) ==
    CountOf(page_sizes, A4)
    + CountOf(page_sizes, A3) * 2
    + CountOf(page_sizes, A2) * 3
    + CountOf(page_sizes, A1) * 4

calculate_a4_equivalent(page_sizes) ==
    CountOf(page_sizes, A4)
    + CountOf(page_sizes, A3) * 2
    + CountOf(page_sizes, A2) * 4
    + CountOf(page_sizes, A1) * 8

\* ------------------------------------------------- check_for_colored.py

tolerance == 10

\* A value stored in a numpy int16 cell.
Int16(v) == ((v + 32768) % 65536) - 32768

\* A value stored in a numpy uint8 cell.
UInt8(v) == v % 256

\* pymupdf.Pixmap(pymupdf.csRGB, pixmap): a copy in the RGB colour space.  The
\* pixmaps of the model are gray or RGB, with or without alpha; an RGB(A)
\* source keeps its samples and its alpha channel.
PixmapRGB(pixmap) == [pixmap EXCEPT !.colorspace = "RGB"]

\* np.frombuffer(samples, uint8).reshape(height, width, n)[y, x, c], 0-based.
ImgAt(pixmap, y, x, c) ==
    UInt8(pixmap.samples[(y * pixmap.width + x) * pixmap.n + c + 1])

\* The mutant of ChannelDiff: the subtraction done on the uint8 buffer, without
\* the widening of img.astype(np.int16).
ChannelDiffUint8(a, b) == UInt8(a - b)

\* np.abs(img[:, :, i] - img[:, :, j]) for one pixel, after astype(np.int16).
ChannelDiff(a, b) ==
    LET d == Int16(Int16(a) - Int16(b))
    IN  Int16(IF d < 0 THEN -d ELSE d)

\* (diff_rg > tolerance) | (diff_gb > tolerance) for the pixel at (y, x).
significant_diff(pixmap, y, x) ==
    \/ ChannelDiff(ImgAt(pixmap, y, x, 0), ImgAt(pixmap, y, x, 1)) > tolerance
    \/ ChannelDiff(ImgAt(pixmap, y, x, 1), ImgAt(pixmap, y, x, 2)) > tolerance

\* np.column_stack(np.where(significant_diff))
colored_coords(pixmap) ==
    {yx \in (0 .. pixmap.height - 1) \X (0 .. pixmap.width - 1) :
        significant_diff(pixmap, yx[1], yx[2])}

check_for_colored(pixmap0) ==
    IF pixmap0.n < 3 THEN FALSE
    ELSE LET pixmap == IF pixmap0.n = 4 THEN PixmapRGB(pixmap0) ELSE pixmap0
         IN  Cardinality(colored_coords(pixmap)) > 0

\* --------------------------------------------------------- the environment

\* File names the folder may hold, as sequences of characters.
NameA == <<"a", ".", "p", "d", "f">>
NameB == <<"B", ".", "P", "D", "F">>
NameT == <<"n", ".", "t", "x", "t">>

FolderNames == {NameA, NameB, NameT}

\* What os.listdir may return: the entries of the folder, each once, in the
\* file system's order.
Listings ==
    {l \in UNION {[1 .. n -> FolderNames] : n \in 0 .. MaxEntries} :
        \A i, j \in DOMAIN l : i # j => l[i] # l[j]}

\* A rendered pixmap of one pixel.
OnePixel(cs, n, samples) ==
    [colorspace |-> cs, n |-> n, width |-> 1, height |-> 1, samples |-> samples]

\* The pages doc.load_page may return during a scan: an A4 page of gray ink
\* and an A3 page with a cyan pixel.
ScanPages ==
    { [mediabox_size |-> <<595, 842>>,  pixmap |-> OnePixel("RGB", 3, <<90, 90, 95>>)],
      [mediabox_size |-> <<842, 1191>>, pixmap |-> OnePixel("RGB", 3, <<0, 255, 255>>)] }

\* Media boxes (width, height in points) drawn for the size classifier's own
\* check: the ISO sheets A4..A0, the boxes whose areas lie next to 80000,
\* 150000 and 300000 mm^2 on either side, and boxes with a zero or negative
\* dimension.
PortraitBoxes ==
    { <<595, 842>>, <<842, 1191>>, <<1191, 1684>>, <<1684, 2384>>, <<2384, 3370>>,
      <<768, 837>>, <<701, 917>>, <<671, 958>>,
      <<1080, 1116>>, <<847, 1423>>, <<965, 1249>>,
      <<1488, 1620>>, <<1423, 1694>>, <<1383, 1743>>,
      <<0, 0>>, <<0, 842>>, <<-595, 842>>, <<-595, -842>>, <<-1684, 2384>>,
      <<-1684, -2384>> }

\* The same boxes in both orientations.
MediaBoxes == PortraitBoxes \cup {<<b[2], b[1]>> : b \in PortraitBoxes}

\* Channel values drawn for the colour detector's own check; the alpha
\* channel of a gray+alpha or RGBA pixmap is transparent or opaque.
Bytes == {0, 10, 11, 255}
Alphas == {0, 255}

ChannelValues(n, c) == IF (n = 2 /\ c = 1) \/ (n = 4 /\ c = 3) THEN Alphas ELSE Bytes

\* The rendered pixmap of `width` x `height` pixels with n channels and the
\* sample buffer `samples`.
PixmapOf(width, height, n, samples) ==
    [colorspace |-> IF n < 3 THEN "GRAY" ELSE "RGB", n |-> n,
     width |-> width, height |-> height, samples |-> samples]

\* --------------------------------------------------------------- the state

VARIABLES
    calcs,                  \* the Calculate instances created so far: [aborted]
    calculate,              \* App.calculate: index into calcs, 0 for None
    thread,                 \* App.thread: index into workers, 0 for None
    workers,                \* the threads started so far, run_process frames
    browse_button,          \* state of browse_button
    start_button,           \* state of start_button
    start_text,             \* text of start_button
    progress_label,         \* text of progress_label
    folder_label,           \* text of selected_folder_label
    ui_queue,               \* callbacks queued with root.after(0, ...)
    dialogs,                \* the modal message boxes open on the screen
    output_dir,             \* whether <cwd>/output exists
    xlsx,                   \* the spreadsheets written so far, each named by
                            \* the time, and so by the run, that wrote it
    pixmap_in,              \* input of the colour detector's own check
    colored_out,            \* its result
    pages_in,               \* pages handed to classify_page_size on its own
    sizes_out,              \* their sizes, in the order of the calls
    page_sizes_in,          \* map handed to calculate_a4_equivalent on its own
    a4_out                  \* its result

vars == <<calcs, calculate, thread, workers, browse_button, start_button,
          start_text, progress_label, folder_label, ui_queue, dialogs,
          output_dir, xlsx, pixmap_in, colored_out, pages_in, sizes_out,
          page_sizes_in, a4_out>>

appVars == <<calcs, calculate, thread, workers, browse_button, start_button,
             start_text, progress_label, folder_label, ui_queue, dialogs,
             output_dir, xlsx>>

\* The inputs and results of the three pure functions checked on their own.
unitVars == <<pixmap_in, colored_out, pages_in, sizes_out, page_sizes_in, a4_out>>

\* Texts of the widgets (the source's labels are Korean).
TextStart == "start estimate"
TextStop == "stop"
TextNoFolder == "no folder selected"
TextFolder == "/folder"

EmptyMap == [k \in {} |-> A4]

\* The texts progress_label shows are records, like the progress messages.
NoStatus == [kind |-> "none", i |-> 0, total |-> 0, name |-> <<>>]
TextEmpty == [kind |-> "empty", i |-> 0, total |-> 0, name |-> <<>>]
TextRunning == [kind |-> "running", i |-> 0, total |-> 0, name |-> <<>>]

\* The mutant of FileStatus: the files are counted from 0.
FileStatusZeroBased(i, total_files, filename) ==
    [kind |-> "file", i |-> i - 1, total |-> total_files, name |-> filename]

\* f"{i}/{total_files}... ({filename})"
FileStatus(i, total_files, filename) ==
    [kind |-> "file", i |-> i, total |-> total_files, name |-> filename]

\* f"... {output_file} ..." : output_file is named by the time of writing; the
\* model names it by the number of the spreadsheet.
SavedStatus(output_file) ==
    [kind |-> "saved", i |-> output_file, total |-> 0, name |-> <<>>]

NoPixmap == [colorspace |-> "none", n |-> 0, width |-> 0, height |-> 0, samples |-> <<>>]

\* The frame of a thread that has not called run() yet.
NewWorker ==
    [alive |-> TRUE, pc |-> "run", calc |-> 0, outcome |-> "none",
     exception |-> "none", yielded |-> <<>>, listing |-> <<>>,
     filenames |-> <<>>, i |-> 0, page_count |-> 0, page_num |-> 0,
     total_page_sizes |-> EmptyMap, colored_page_sizes |-> EmptyMap,
     monochrome_page_sizes |-> EmptyMap, data |-> <<>>, output_file |-> 0,
     status |-> NoStatus, status_message |-> NoStatus]

\* The locals of run() and _get_pdf_info() are gone once the generator is;
\* `status` lives on in the closures queued on the UI thread.
Unwound(w, pc, outcome) ==
    [NewWorker EXCEPT !.pc = pc, !.outcome = outcome, !.calc = w.calc,
                      !.status = w.status, !.alive = w.alive]

Init ==
    /\ calcs = <<>>
    /\ calculate = 0
    /\ thread = 0
    /\ workers = <<>>
    /\ browse_button = "normal"
    /\ start_button = "disabled"
    /\ start_text = TextStart
    /\ progress_label = TextEmpty
    /\ folder_label = TextNoFolder
    /\ ui_queue = <<>>
    /\ dialogs = <<>>
    /\ output_dir = FALSE
    /\ xlsx = <<>>
    /\ pixmap_in = NoPixmap
    /\ colored_out = <<>>
    /\ pages_in = <<>>
    /\ sizes_out = <<>>
    /\ page_sizes_in = EmptyMap
    /\ a4_out = <<>>

\* ------------------------------------------------------ main.py: UI thread

\* Calculate.__init__
NewCalculate == [aborted |-> FALSE]

\* Calculate.stop, on instance c.
stop(c) == calcs' = [calcs EXCEPT ![c].aborted = TRUE]

\* App.finish_process
finish_process ==
    /\ browse_button' = "normal"
    /\ start_text' = TextStart
    /\ progress_label' = TextEmpty

\* App.browse_folder: the user closes the folder dialog with a folder or
\* without one (folder_selected = "").  A modal message box keeps the clicks
\* from the main window until it is closed.
browse_folder(folder_selected) ==
    /\ dialogs = <<>>
    /\ browse_button = "normal"
    /\ IF folder_selected # ""
       THEN /\ Len(calcs) < MaxCalcs
            /\ folder_label' = folder_selected
            /\ start_button' = "normal"
            /\ calcs' = Append(calcs, NewCalculate)
            /\ calculate' = Len(calcs) + 1
       ELSE UNCHANGED <<folder_label, start_button, calcs, calculate>>
    /\ UNCHANGED <<thread, workers, browse_button, start_text, progress_label,
                   ui_queue, dialogs, output_dir, xlsx, unitVars>>

\* The mutant of ThreadIsAlive: the toggle never sees a running thread.
ThreadIsAliveNever == FALSE

\* self.thread and self.thread.is_alive()
ThreadIsAlive == thread # 0 /\ workers[thread].alive

\* App.toggle_process: a click on the start/stop button.
toggle_process ==
    /\ dialogs = <<>>
    /\ start_button = "normal"
    /\ IF ThreadIsAlive
       THEN /\ stop(calculate)
            /\ UNCHANGED <<thread, workers, browse_button, start_text, progress_label>>
       ELSE /\ Len(workers) < MaxRuns
            /\ browse_button' = "disabled"
            /\ start_text' = TextStop
            /\ progress_label' = TextRunning
            /\ workers' = Append(workers, NewWorker)
            /\ thread' = Len(workers) + 1
            /\ UNCHANGED calcs
    /\ UNCHANGED <<calculate, start_button, folder_label, ui_queue, dialogs,
                   output_dir, xlsx, unitVars>>

\* The Tk event loop runs the oldest callback queued with root.after(0, ...):
\* the progress lambda, which reads `status` when it runs, or
\* App.on_process_complete.
ui_callback ==
    /\ ui_queue # <<>>
    /\ LET cb == Head(ui_queue)
       IN  /\ ui_queue' = Tail(ui_queue)
           /\ IF cb.kind = "progress"
              THEN /\ progress_label' = workers[cb.t].status
                   /\ UNCHANGED <<browse_button, start_text, dialogs>>
              ELSE /\ finish_process
                   /\ dialogs' = Append(dialogs, [title |-> "done", message |-> cb.msg])
    /\ UNCHANGED <<calcs, calculate, thread, workers, start_button, folder_label,
                   output_dir, xlsx, unitVars>>

\* The user closes the message box of messagebox.showinfo.
close_dialog ==
    /\ dialogs # <<>>
    /\ dialogs' = Tail(dialogs)
    /\ UNCHANGED <<calcs, calculate, thread, workers, browse_button, start_button,
                   start_text, progress_label, folder_label, ui_queue, output_dir,
                   xlsx, unitVars>>

\* ------------------------------------------- calculate.py: the worker thread

\* filename.lower(), character by character.
Lower(name) ==
    [k \in DOMAIN name |->
        CASE name[k] = "B" -> "b"
          [] name[k] = "P" -> "p"
          [] name[k] = "D" -> "d"
          [] name[k] = "F" -> "f"
          [] OTHER -> name[k]]

\* name.endswith('.pdf')
EndsWithPdf(name) ==
    /\ Len(name) >= 4
    /\ SubSeq(name, Len(name) - 3, Len(name)) = <<".", "p", "d", "f">>

\* The mutant of IsPdfName: the suffix compared without lower().
IsPdfNameCaseSensitive(filename) == EndsWithPdf(filename)

\* filename.lower().endswith('.pdf')
IsPdfName(filename) == EndsWithPdf(Lower(filename))

RECURSIVE SelectPdf(_)
\* [filename for filename in listing if filename.lower().endswith('.pdf')]
SelectPdf(listing) ==
    IF listing = <<>> THEN <<>>
    ELSE IF IsPdfName(Head(listing))
         THEN <<Head(listing)>> \o SelectPdf(Tail(listing))
         ELSE SelectPdf(Tail(listing))

\* page_sizes[key] = value
MapPut(page_sizes, key, value) ==
    [k \in DOMAIN page_sizes \cup {key} |-> IF k = key THEN value ELSE page_sizes[k]]

\* The keys of a map in insertion order; pages are inserted by rising number.
KeysOf(page_sizes) ==
    LET keys == DOMAIN page_sizes
    IN  CHOOSE s \in [1 .. Cardinality(keys) -> keys] :
            \A a, b \in DOMAIN s : a < b => s[a] < s[b]

\* The dictionary appended to data for one document.
Row(filename, total_page_sizes, colored_page_sizes, monochrome_page_sizes) ==
    [name |-> filename,
     PDF |-> Cardinality(DOMAIN total_page_sizes),
     A4 |-> CountOf(total_page_sizes, A4),
     A3 |-> CountOf(total_page_sizes, A3),
     A2 |-> CountOf(total_page_sizes, A2),
     A1 |-> CountOf(total_page_sizes, A1),
     all_a4 |-> calculate_a4_equivalent(total_page_sizes),
     mono_a4 |-> calculate_a4_equivalent(monochrome_page_sizes),
     colored_a4 |-> calculate_a4_equivalent(colored_page_sizes),
     colored_pages |-> KeysOf(colored_page_sizes)]

\* An exception nothing catches leaves run() and run_process(): the thread
\* ends, threading prints the traceback, and no widget is touched.
Unhandled(t, exception) ==
    workers' = [workers EXCEPT
                   ![t] = [Unwound(@, "dead", "Failed") EXCEPT
                              !.alive = FALSE, !.exception = exception]]

\* run_process calls self.calculate.run(); run() lists the folder and keeps
\* the PDF names.  The frame remembers what os.listdir returned.
run_start(t) ==
    /\ workers[t].pc = "run"
    /\ \E listing \in Listings :
          workers' = [workers EXCEPT ![t] =
                        [@ EXCEPT !.calc = calculate,
                                  !.listing = listing,
                                  !.filenames = SelectPdf(listing),
                                  !.data = <<>>,
                                  !.pc = "loop"]]
    /\ UNCHANGED <<calcs, calculate, thread, browse_button, start_button, start_text,
                   progress_label, folder_label, ui_queue, dialogs, output_dir,
                   xlsx, unitVars>>

\* The head of the per-file loop: the progress message is yielded to
\* run_process, which queues the progress lambda; after the last file the
\* loop ends.
run_next_file(t) ==
    /\ workers[t].pc = "loop"
    /\ LET w == workers[t]
           total_files == Len(w.filenames)
       IN  IF w.i < total_files
           THEN LET msg == FileStatus(w.i + 1, total_files, w.filenames[w.i + 1])
                IN  IF thread = 0
                    THEN /\ workers' = [workers EXCEPT ![t] =
                               [@ EXCEPT !.i = w.i + 1, !.status = msg,
                                         !.yielded = Append(@, msg),
                                         !.status_message = msg, !.pc = "resume"]]
                         /\ UNCHANGED ui_queue
                    ELSE /\ Len(ui_queue) < MaxQueue
                         /\ workers' = [workers EXCEPT ![t] =
                               [@ EXCEPT !.i = w.i + 1, !.status = msg,
                                         !.yielded = Append(@, msg),
                                         !.status_message = msg, !.pc = "open"]]
                         /\ ui_queue' = Append(ui_queue,
                               [kind |-> "progress", t |-> t, msg |-> NoStatus])
           ELSE /\ workers' = [workers EXCEPT ![t].pc = "persist"]
                /\ UNCHANGED ui_queue
    /\ UNCHANGED <<calcs, calculate, thread, browse_button, start_button, start_text,
                   progress_label, folder_label, dialogs, output_dir, xlsx,
                   unitVars>>

\* _get_pdf_info: pymupdf.open(pdf_path) opens the document or raises.
get_pdf_info_open(t) ==
    /\ workers[t].pc = "open"
    /\ \E readable \in BOOLEAN, page_count \in 0 .. MaxPages :
          IF readable
          THEN /\ workers' = [workers EXCEPT ![t] =
                     [@ EXCEPT !.page_count = page_count, !.page_num = 0,
                               !.total_page_sizes = EmptyMap,
                               !.colored_page_sizes = EmptyMap,
                               !.monochrome_page_sizes = EmptyMap,
                               !.pc = "check"]]
          ELSE /\ page_count = 0
               /\ Unhandled(t, "FileDataError")
    /\ UNCHANGED <<calcs, calculate, thread, browse_button, start_button, start_text,
                   progress_label, folder_label, ui_queue, dialogs, output_dir, xlsx,
                   unitVars>>

\* The mutant of AbortObserved: the flag is never polled.
AbortObservedNever(c) == FALSE

\* if self._aborted
AbortObserved(c) == calcs[c].aborted

\* The mutant of AbortReset: the flag is left set when the abort is raised.
AbortResetMissing(c) == calcs

\* self._aborted = False
AbortReset(c) == [calcs EXCEPT ![c].aborted = FALSE]

\* _get_pdf_info: the head of the page loop, with the poll of the flag.
get_pdf_info_check(t) ==
    /\ workers[t].pc = "check"
    /\ LET w == workers[t]
       IN  IF w.page_num < w.page_count
           THEN IF AbortObserved(w.calc)
                THEN /\ calcs' = AbortReset(w.calc)
                     /\ workers' = [workers EXCEPT ![t].pc = "raised"]
                ELSE /\ workers' = [workers EXCEPT ![t].pc = "page"]
                     /\ UNCHANGED calcs
           ELSE /\ workers' = [workers EXCEPT ![t].pc = "append"]
                /\ UNCHANGED calcs
    /\ UNCHANGED <<calculate, thread, browse_button, start_button, start_text,
                   progress_label, folder_label, ui_queue, dialogs, output_dir, xlsx,
                   unitVars>>

\* The mutant of RecordPage: the row of the document is appended page by page.
RecordPagePartialRow(w, page) ==
    LET page_size == classify_page_size(page)
        human_readable_page_num == w.page_num + 1
        colored == check_for_colored(page.pixmap)
    IN  [w EXCEPT
            !.total_page_sizes = MapPut(@, human_readable_page_num, page_size),
            !.colored_page_sizes =
                IF colored THEN MapPut(@, human_readable_page_num, page_size) ELSE @,
            !.monochrome_page_sizes =
                IF colored THEN @ ELSE MapPut(@, human_readable_page_num, page_size),
            !.data = Append(@, [name |-> w.filenames[w.i]]),
            !.page_num = w.page_num + 1,
            !.pc = "check"]

\* The mutant of RecordPage: a coloured page is entered in both subsets.
RecordPageBoth(w, page) ==
    LET page_size == classify_page_size(page)
        human_readable_page_num == w.page_num + 1
        colored == check_for_colored(page.pixmap)
    IN  [w EXCEPT
            !.total_page_sizes = MapPut(@, human_readable_page_num, page_size),
            !.colored_page_sizes =
                IF colored THEN MapPut(@, human_readable_page_num, page_size) ELSE @,
            !.monochrome_page_sizes = MapPut(@, human_readable_page_num, page_size),
            !.page_num = w.page_num + 1,
            !.pc = "check"]

\* The mutant of RecordPage: the page loop does not move on to the next page.
RecordPageStuck(w, page) ==
    LET page_size == classify_page_size(page)
        human_readable_page_num == w.page_num + 1
        colored == check_for_colored(page.pixmap)
    IN  [w EXCEPT
            !.total_page_sizes = MapPut(@, human_readable_page_num, page_size),
            !.colored_page_sizes =
                IF colored THEN MapPut(@, human_readable_page_num, page_size) ELSE @,
            !.monochrome_page_sizes =
                IF colored THEN @ ELSE MapPut(@, human_readable_page_num, page_size),
            !.pc = "check"]

\* The body of the page loop, for the page doc.load_page returned.
RecordPage(w, page) ==
    LET page_size == classify_page_size(page)
        human_readable_page_num == w.page_num + 1
        colored == check_for_colored(page.pixmap)
    IN  [w EXCEPT
            !.total_page_sizes = MapPut(@, human_readable_page_num, page_size),
            !.colored_page_sizes =
                IF colored THEN MapPut(@, human_readable_page_num, page_size) ELSE @,
            !.monochrome_page_sizes =
                IF colored THEN @ ELSE MapPut(@, human_readable_page_num, page_size),
            !.page_num = w.page_num + 1,
            !.pc = "check"]

get_pdf_info_page(t) ==
    /\ workers[t].pc = "page"
    /\ \E page \in ScanPages :
          workers' = [workers EXCEPT ![t] = RecordPage(@, page)]
    /\ UNCHANGED <<calcs, calculate, thread, browse_button, start_button, start_text,
                   progress_label, folder_label, ui_queue, dialogs, output_dir, xlsx,
                   unitVars>>

\* The mutant of AppendRow: the table is restarted with every document.
AppendRowRestart(w) ==
    [w EXCEPT !.data = <<Row(w.filenames[w.i], w.total_page_sizes,
                             w.colored_page_sizes, w.monochrome_page_sizes)>>,
              !.pc = "loop"]

\* data.append({...}) once _get_pdf_info has returned the three maps.
AppendRow(w) ==
    [w EXCEPT !.data = Append(@, Row(w.filenames[w.i], w.total_page_sizes,
                                     w.colored_page_sizes, w.monochrome_page_sizes)),
              !.pc = "loop"]

run_append(t) ==
    /\ workers[t].pc = "append"
    /\ workers' = [workers EXCEPT ![t] = AppendRow(@)]
    /\ UNCHANGED <<calcs, calculate, thread, browse_button, start_button, start_text,
                   progress_label, folder_label, ui_queue, dialogs, output_dir, xlsx,
                   unitVars>>

\* The output folder is made if absent and the table is written; either may
\* raise OSError.
run_persist(t) ==
    /\ workers[t].pc = "persist"
    /\ \E made \in BOOLEAN, written \in BOOLEAN :
          IF ~output_dir /\ ~made
          THEN /\ written
               /\ Unhandled(t, "OSError")
               /\ UNCHANGED <<output_dir, xlsx>>
          ELSE IF ~written
          THEN /\ made
               /\ output_dir' = TRUE
               /\ Unhandled(t, "OSError")
               /\ UNCHANGED xlsx
          ELSE /\ made
               /\ output_dir' = TRUE
               /\ xlsx' = Append(xlsx, [written_by |-> t, table |-> workers[t].data])
               /\ workers' = [workers EXCEPT ![t] =
                     [@ EXCEPT !.output_file = Len(xlsx) + 1, !.pc = "yield_final"]]
    /\ UNCHANGED <<calcs, calculate, thread, browse_button, start_button, start_text,
                   progress_label, folder_label, ui_queue, dialogs,
                   unitVars>>

\* The last yield of run(), taken by run_process like every other.
run_yield_final(t) ==
    /\ workers[t].pc = "yield_final"
    /\ LET msg == SavedStatus(workers[t].output_file)
       IN  IF thread = 0
           THEN /\ workers' = [workers EXCEPT ![t] =
                      [@ EXCEPT !.status = msg, !.status_message = msg,
                                !.yielded = Append(@, msg), !.pc = "resume"]]
                /\ UNCHANGED ui_queue
           ELSE /\ Len(ui_queue) < MaxQueue
                /\ workers' = [workers EXCEPT ![t] =
                      [@ EXCEPT !.status = msg, !.status_message = msg,
                                !.yielded = Append(@, msg), !.pc = "resume"]]
                /\ ui_queue' = Append(ui_queue,
                      [kind |-> "progress", t |-> t, msg |-> NoStatus])
    /\ UNCHANGED <<calcs, calculate, thread, browse_button, start_button, start_text,
                   progress_label, folder_label, dialogs, output_dir, xlsx,
                   unitVars>>

\* run() returns after its last yield (or run_process left its loop), and
\* run_process queues on_process_complete on the UI thread.
run_process_complete(t) ==
    /\ workers[t].pc = "resume"
    /\ Len(ui_queue) < MaxQueue
    /\ ui_queue' = Append(ui_queue,
          [kind |-> "complete", t |-> t, msg |-> workers[t].status_message])
    /\ workers' = [workers EXCEPT ![t] = Unwound(@, "exit", "Completed")]
    /\ UNCHANGED <<calcs, calculate, thread, browse_button, start_button, start_text,
                   progress_label, folder_label, dialogs, output_dir, xlsx,
                   unitVars>>

\* The mutant of run_process_aborted: the handler writes the rows collected
\* before the abort to a spreadsheet.
run_process_abortedSaving(t) ==
    /\ workers[t].pc = "raised"
    /\ finish_process
    /\ output_dir' = TRUE
    /\ xlsx' = Append(xlsx, [written_by |-> t, table |-> workers[t].data])
    /\ workers' = [workers EXCEPT ![t] = Unwound(@, "exit", "Aborted")]
    /\ UNCHANGED <<calcs, calculate, thread, start_button, folder_label, ui_queue,
                   dialogs, unitVars>>

\* run_process: except AbortionException: self.finish_process(), called on
\* the worker thread.
run_process_aborted(t) ==
    /\ workers[t].pc = "raised"
    /\ finish_process
    /\ workers' = [workers EXCEPT ![t] = Unwound(@, "exit", "Aborted")]
    /\ UNCHANGED <<calcs, calculate, thread, start_button, folder_label, ui_queue,
                   dialogs, output_dir, xlsx, unitVars>>

\* run_process returns and the thread ends: is_alive() is false from here on.
thread_exit(t) ==
    /\ workers[t].pc = "exit"
    /\ workers' = [workers EXCEPT ![t] = [@ EXCEPT !.alive = FALSE, !.pc = "dead"]]
    /\ UNCHANGED <<calcs, calculate, thread, browse_button, start_button, start_text,
                   progress_label, folder_label, ui_queue, dialogs, output_dir, xlsx,
                   unitVars>>

\* ------------------------------------------------------- the specification

Next ==
    \/ \E folder_selected \in {"", TextFolder} : browse_folder(folder_selected)
    \/ toggle_process
    \/ ui_callback
    \/ close_dialog
    \/ \E t \in DOMAIN workers : run_start(t)
    \/ \E t \in DOMAIN workers : run_next_file(t)
    \/ \E t \in DOMAIN workers : get_pdf_info_open(t)
    \/ \E t \in DOMAIN workers : get_pdf_info_check(t)
    \/ \E t \in DOMAIN workers : get_pdf_info_page(t)
    \/ \E t \in DOMAIN workers : run_append(t)
    \/ \E t \in DOMAIN workers : run_persist(t)
    \/ \E t \in DOMAIN workers : run_yield_final(t)
    \/ \E t \in DOMAIN workers : run_process_complete(t)
    \/ \E t \in DOMAIN workers : run_process_aborted(t)
    \/ \E t \in DOMAIN workers : thread_exit(t)

Spec == Init /\ [][Next]_vars

\* What the fair specification assumes of the folder: no document fails to
\* open, the folder and the spreadsheet can be written, and the documents of
\* a run have at most MaxScanPages pages together.
ScanAssumption(t) ==
    /\ workers[t].outcome # "Failed"
    /\ Len(workers[t].filenames) * workers[t].page_count <= MaxScanPages

\* A step of worker thread t, whichever statement it is at, in a folder that
\* meets the assumption: what the scheduler owes a started thread.
WorkerStep(t) ==
    /\ t \in DOMAIN workers
    /\ \/ run_start(t)
       \/ run_next_file(t)
       \/ get_pdf_info_open(t) /\ ScanAssumption(t)'
       \/ get_pdf_info_check(t)
       \/ get_pdf_info_page(t)
       \/ run_append(t)
       \/ run_persist(t) /\ ScanAssumption(t)'
       \/ run_yield_final(t)
       \/ run_process_complete(t)
       \/ run_process_aborted(t)
       \/ thread_exit(t)

NextFair ==
    \/ \E folder_selected \in {"", TextFolder} : browse_folder(folder_selected)
    \/ toggle_process
    \/ ui_callback
    \/ close_dialog
    \/ \E t \in DOMAIN workers : run_start(t)
    \/ \E t \in DOMAIN workers : run_next_file(t)
    \/ \E t \in DOMAIN workers : get_pdf_info_open(t) /\ ScanAssumption(t)'
    \/ \E t \in DOMAIN workers : get_pdf_info_check(t)
    \/ \E t \in DOMAIN workers : get_pdf_info_page(t)
    \/ \E t \in DOMAIN workers : run_append(t)
    \/ \E t \in DOMAIN workers : run_persist(t) /\ ScanAssumption(t)'
    \/ \E t \in DOMAIN workers : run_yield_final(t)
    \/ \E t \in DOMAIN workers : run_process_complete(t)
    \/ \E t \in DOMAIN workers : run_process_aborted(t)
    \/ \E t \in DOMAIN workers : thread_exit(t)

\* The same program under fair scheduling: a started thread that can take a
\* step gets to take it, and the Tk event loop gets to run a queued callback.
\* Nothing makes the user click.
SpecFair ==
    /\ Init
    /\ [][NextFair]_vars
    /\ WF_vars(ui_callback)
    /\ \A t \in 1 .. MaxRuns : WF_vars(WorkerStep(t))

\* --------------------------------- the colour detector checked on its own

InitColor ==
    /\ calcs = <<>>
    /\ calculate = 0
    /\ thread = 0
    /\ workers = <<>>
    /\ browse_button = "normal"
    /\ start_button = "disabled"
    /\ start_text = TextStart
    /\ progress_label = TextEmpty
    /\ folder_label = TextNoFolder
    /\ ui_queue = <<>>
    /\ dialogs = <<>>
    /\ output_dir = FALSE
    /\ xlsx = <<>>
    /\ \E width \in 1 .. MaxPixels, height \in 1 .. MaxPixels, n \in 1 .. 4 :
          /\ width * height <= MaxPixels
          /\ \E samples \in [1 .. width * height * n -> Bytes] :
                /\ \A k \in 1 .. width * height * n :
                      samples[k] \in ChannelValues(n, (k - 1) % n)
                /\ pixmap_in = PixmapOf(width, height, n, samples)
    /\ colored_out = <<>>
    /\ pages_in = <<>>
    /\ sizes_out = <<>>
    /\ page_sizes_in = EmptyMap
    /\ a4_out = <<>>

\* colored_out = <<check_for_colored(page)>> for the rendered page pixmap_in.
call_check_for_colored ==
    /\ colored_out = <<>>
    /\ colored_out' = <<check_for_colored(pixmap_in)>>
    /\ UNCHANGED <<appVars, pixmap_in, pages_in, sizes_out, page_sizes_in, a4_out>>

NextColor == call_check_for_colored

SpecColor == InitColor /\ [][NextColor]_vars

\* --------------------------------- the size classifier checked on its own

InitSize ==
    /\ calcs = <<>>
    /\ calculate = 0
    /\ thread = 0
    /\ workers = <<>>
    /\ browse_button = "normal"
    /\ start_button = "disabled"
    /\ start_text = TextStart
    /\ progress_label = TextEmpty
    /\ folder_label = TextNoFolder
    /\ ui_queue = <<>>
    /\ dialogs = <<>>
    /\ output_dir = FALSE
    /\ xlsx = <<>>
    /\ pixmap_in = NoPixmap
    /\ colored_out = <<>>
    /\ \E box1 \in MediaBoxes, box2 \in MediaBoxes :
          pages_in = <<[mediabox_size |-> box1], [mediabox_size |-> box2]>>
    /\ sizes_out = <<>>
    /\ page_sizes_in = EmptyMap
    /\ a4_out = <<>>

\* sizes_out gets classify_page_size(page) for the next page of pages_in.
call_classify_page_size ==
    /\ Len(sizes_out) < Len(pages_in)
    /\ sizes_out' = Append(sizes_out, classify_page_size(pages_in[Len(sizes_out) + 1]))
    /\ UNCHANGED <<appVars, pixmap_in, colored_out, pages_in, page_sizes_in, a4_out>>

NextSize == call_classify_page_size

SpecSize == InitSize /\ [][NextSize]_vars

\* ------------------------------------- the A4 equivalent checked on its own

InitEquivalent ==
    /\ calcs = <<>>
    /\ calculate = 0
    /\ thread = 0
    /\ workers = <<>>
    /\ browse_button = "normal"
    /\ start_button = "disabled"
    /\ start_text = TextStart
    /\ progress_label = TextEmpty
    /\ folder_label = TextNoFolder
    /\ ui_queue = <<>>
    /\ dialogs = <<>>
    /\ output_dir = FALSE
    /\ xlsx = <<>>
    /\ pixmap_in = NoPixmap
    /\ colored_out = <<>>
    /\ pages_in = <<>>
    /\ sizes_out = <<>>
    /\ \E keys \in SUBSET (1 .. MaxMapPages) :
          \E page_sizes \in [keys -> PageSize] : page_sizes_in = page_sizes
    /\ a4_out = <<>>

\* a4_out = <<calculate_a4_equivalent(page_sizes)>>; the function reads the
\* values of the map and assigns nothing to it.
call_calculate_a4_equivalent ==
    /\ a4_out = <<>>
    /\ a4_out' = <<calculate_a4_equivalent(page_sizes_in)>>
    /\ UNCHANGED <<appVars, pixmap_in, colored_out, pages_in, sizes_out, page_sizes_in>>

NextEquivalent == call_calculate_a4_equivalent

SpecEquivalent == InitEquivalent /\ [][NextEquivalent]_vars

\* ---------------------------------------------------------------- claims

\* The run of thread t has ended: run_process is past its loop or handler.
Ended(t) == workers[t].pc \in {"exit", "dead"}

\* The cancellation flag of the instance thread t scans with.
FlagOf(t) == workers[t].calc # 0 /\ calcs[workers[t].calc].aborted

\* Row j of `table` is the row of the j-th selected file.
NamesInOrder(table, filenames) ==
    /\ Len(table) <= Len(filenames)
    /\ \A j \in DOMAIN table : table[j].name = filenames[j]

\* C1 (as amended): when the abort is raised while document k is being read,
\* the table run() has accumulated holds exactly one row for each of the
\* documents 1..k-1, in order, and none for document k; no spreadsheet of
\* this run exists.
C1_AbortKeepsCompletedRows ==
    \A t \in DOMAIN workers :
        workers[t].pc = "raised" =>
            /\ Len(workers[t].data) = workers[t].i - 1
            /\ NamesInOrder(workers[t].data, workers[t].filenames)
            /\ \A f \in DOMAIN xlsx : xlsx[f].written_by # t

\* C1 witness: the abort is raised on document 2 with the row of document 1
\* in the table.
C1_Witness ==
    \E t \in DOMAIN workers :
        /\ workers[t].pc = "raised"
        /\ workers[t].i = 2
        /\ Len(workers[t].data) = 1
        /\ workers[t].page_num = 1

\* C1 (as stated): the cancelled run yields its table: when run_process
\* handles the abort, a table with the rows accumulated so far is handed over.
C1_AbortedRunYieldsTable ==
    [][\A t \in DOMAIN workers :
          (workers[t].pc = "raised" /\ workers'[t].pc = "exit") =>
              \E f \in DOMAIN xlsx' :
                  xlsx'[f].written_by = t /\ xlsx'[f].table = workers[t].data]_vars

\* C2: once the latest run has ended, Completed or Aborted, the cancellation
\* flag of its instance is false.
C2_FlagClearAfterRun ==
    \A t \in DOMAIN workers :
        (t = Len(workers) /\ Ended(t) /\ workers[t].outcome \in {"Completed", "Aborted"})
            => ~FlagOf(t)

\* C3: a run with a stop() pending starts no further page, appends no row and
\* does not go on to persist the table and complete.
C3_StopEndsInAbort ==
    \A t \in DOMAIN workers :
        FlagOf(t) => workers[t].pc \notin {"append", "persist", "yield_final", "resume"}

\* C4: a document that cannot be opened does not end the scan.
C4_ReadFailureSkipsDocument ==
    \A t \in DOMAIN workers : workers[t].exception # "FileDataError"

\* C5: the coloured and monochrome pages of a document partition its pages
\* 1..page_count when its row is appended, and in every row the size counts
\* add up to the page count and the all-pages A4 equivalent is the sum of the
\* monochrome and the coloured one.
C5_RowInvariants ==
    \A t \in DOMAIN workers :
        /\ workers[t].pc = "append" =>
              /\ DOMAIN workers[t].colored_page_sizes
                    \cap DOMAIN workers[t].monochrome_page_sizes = {}
              /\ DOMAIN workers[t].colored_page_sizes
                    \cup DOMAIN workers[t].monochrome_page_sizes
                        = 1 .. workers[t].page_count
              /\ DOMAIN workers[t].total_page_sizes = 1 .. workers[t].page_count
        /\ \A j \in DOMAIN workers[t].data :
              LET row == workers[t].data[j]
              IN  /\ row.A4 + row.A3 + row.A2 + row.A1 = row.PDF
                  /\ row.all_a4 = row.mono_a4 + row.colored_a4
                  /\ \A k \in DOMAIN row.colored_pages :
                        row.colored_pages[k] \in 1 .. row.PDF

\* C5 witness: a row of a two-page document with one coloured A3 page and one
\* monochrome A4 page.
C5_Witness ==
    \E t \in DOMAIN workers : \E j \in DOMAIN workers[t].data :
        LET row == workers[t].data[j]
        IN  row.PDF = 2 /\ row.A4 = 1 /\ row.A3 = 1 /\ row.all_a4 = 3
            /\ row.mono_a4 = 1 /\ row.colored_a4 = 2 /\ row.colored_pages = <<2>>

\* C6: a thread killed by a failure to make the output folder or to write the
\* spreadsheet has a notification on its way to the user or on the screen, or
\* the interface has left the busy state.
C6_PersistFailureSurfaced ==
    \A t \in DOMAIN workers :
        (workers[t].exception = "OSError" /\ thread = t) =>
            \/ \E k \in DOMAIN ui_queue : ui_queue[k].t = t /\ ui_queue[k].kind # "progress"
            \/ dialogs # <<>>
            \/ browse_button = "normal"

\* The stream a run over `filenames` is to yield up to its n-th message.
ExpectedStream(filenames, n, output_file) ==
    [k \in 1 .. n |->
        IF k <= Len(filenames)
        THEN [kind |-> "file", i |-> k, total |-> Len(filenames), name |-> filenames[k]]
        ELSE [kind |-> "saved", i |-> output_file, total |-> 0, name |-> <<>>]]

\* C7: the messages yielded so far are the first messages of 1/N, ..., N/N and
\* the final one; message i is out before document i is opened; the final
\* message is out only once the table is written; a run that returns has
\* yielded all N + 1.
C7_ProgressStream ==
    \A t \in DOMAIN workers :
        LET w == workers[t]
            n == Len(w.yielded)
        IN  /\ n <= Len(w.filenames) + 1
            /\ w.yielded = ExpectedStream(w.filenames, n, w.output_file)
            /\ w.pc \in {"open", "check", "page", "append"} =>
                  (n = w.i /\ w.i >= 1)
            /\ n = Len(w.filenames) + 1 =>
                  /\ w.output_file \in DOMAIN xlsx
                  /\ xlsx[w.output_file] = [written_by |-> t, table |-> w.data]
            /\ w.pc = "resume" => n = Len(w.filenames) + 1

\* C7 witness: a run over two files has yielded 1/2, 2/2 and the final message.
C7_Witness ==
    \E t \in DOMAIN workers :
        /\ workers[t].pc = "resume"
        /\ Len(workers[t].filenames) = 2
        /\ Len(workers[t].yielded) = 3
        /\ workers[t].yielded[3].kind = "saved"

\* C8: a written table has one row per selected file, in their order; a row
\* is appended only when every page of its document is classified; rows
\* already in the table stay as they are while the run goes on.
C8_OneRowPerFile ==
    /\ [](\A t \in DOMAIN workers :
            workers[t].pc \in {"yield_final", "resume"} =>
                /\ workers[t].output_file \in DOMAIN xlsx
                /\ Len(xlsx[workers[t].output_file].table) = Len(workers[t].filenames)
                /\ NamesInOrder(xlsx[workers[t].output_file].table, workers[t].filenames))
    /\ [][\A t \in DOMAIN workers :
            /\ Len(workers'[t].data) > Len(workers[t].data) =>
                  /\ workers[t].page_num = workers[t].page_count
                  /\ DOMAIN workers[t].total_page_sizes = 1 .. workers[t].page_count
                  /\ Len(workers'[t].data) = Len(workers[t].data) + 1
            /\ workers'[t].pc \in {"loop", "open", "check", "page", "append",
                                   "persist", "yield_final", "resume", "raised"} =>
                  /\ Len(workers'[t].data) >= Len(workers[t].data)
                  /\ SubSeq(workers'[t].data, 1, Len(workers[t].data)) = workers[t].data
            /\ \A f \in DOMAIN xlsx : f \in DOMAIN xlsx' /\ xlsx'[f] = xlsx[f]]_vars

\* C8 witness: a table of two rows is written for a folder of two PDF files.
C8_Witness ==
    \E t \in DOMAIN workers :
        /\ workers[t].pc = "resume"
        /\ Len(workers[t].filenames) = 2
        /\ Len(xlsx[workers[t].output_file].table) = 2
        /\ xlsx[workers[t].output_file].table[1].PDF = 2

\* C9: after a cancelled run the interface is in the stopped state: browse
\* enabled, start label shown, progress label empty, no dialog.
C9_StoppedAfterCancel ==
    \A t \in DOMAIN workers :
        (t = thread /\ Ended(t) /\ workers[t].outcome = "Aborted") =>
            /\ browse_button = "normal"
            /\ start_text = TextStart
            /\ progress_label = TextEmpty
            /\ dialogs = <<>>

\* Pixel p (0-based, row by row) of pixmap_in has a channel difference above 10.
PixelIsColored(p) ==
    LET r == pixmap_in.samples[p * pixmap_in.n + 1]
        g == pixmap_in.samples[p * pixmap_in.n + 2]
        b == pixmap_in.samples[p * pixmap_in.n + 3]
    IN  \/ r - g > 10 \/ g - r > 10
        \/ g - b > 10 \/ b - g > 10

\* The largest channel difference |R-G|, |G-B| over the pixels is d.
MaxDifferenceIs(d) ==
    LET abs(x) == IF x < 0 THEN -x ELSE x
        diffs == UNION {{abs(pixmap_in.samples[p * pixmap_in.n + 1]
                             - pixmap_in.samples[p * pixmap_in.n + 2]),
                         abs(pixmap_in.samples[p * pixmap_in.n + 2]
                             - pixmap_in.samples[p * pixmap_in.n + 3])} :
                        p \in 0 .. pixmap_in.width * pixmap_in.height - 1}
    IN  d \in diffs /\ \A e \in diffs : e <= d

\* C10: check_for_colored is true exactly when the pixmap has three channels
\* or more and some pixel has |R-G| > 10 or |G-B| > 10, the differences taken
\* on the values 0..255 without wrap-around.
C10_ColoredIffSignificantPixel ==
    colored_out # <<>> =>
        colored_out[1] =
            (/\ pixmap_in.n >= 3
             /\ \E p \in 0 .. pixmap_in.width * pixmap_in.height - 1 : PixelIsColored(p))

\* C10 witness: two pixels, one gray and one with a largest difference of 11,
\* are found coloured.
C10_Witness ==
    /\ colored_out = <<TRUE>>
    /\ pixmap_in.n = 3
    /\ pixmap_in.width * pixmap_in.height = 2
    /\ MaxDifferenceIs(11)
    /\ \E p \in 0 .. 1 : ~PixelIsColored(p)

\* The product of the dimensions of page k of pages_in, in square points: the
\* area in mm^2 is this product times 0.352778^2.
SquarePoints(k) == pages_in[k].mediabox_size[1] * pages_in[k].mediabox_size[2]

\* C11: the size of a page is the bucket of its area in mm^2 with the
\* thresholds 80000, 150000 and 300000, each closed below and open above; two
\* pages of the same area get the same size (so a page and its rotation do),
\* a page of no smaller area gets no smaller size, and a page of zero or
\* negative area is A4.
C11_AreaBuckets ==
    /\ \A k \in DOMAIN sizes_out :
          LET area == AreaMm2(pages_in[k].mediabox_size[1], pages_in[k].mediabox_size[2])
          IN  /\ area < 80000 => sizes_out[k] = A4
              /\ (80000 <= area /\ area < 150000) => sizes_out[k] = A3
              /\ (150000 <= area /\ area < 300000) => sizes_out[k] = A2
              /\ area >= 300000 => sizes_out[k] = A1
              /\ SquarePoints(k) <= 0 => sizes_out[k] = A4
    /\ \A j, k \in DOMAIN sizes_out :
          /\ SquarePoints(j) = SquarePoints(k) => sizes_out[j] = sizes_out[k]
          /\ SquarePoints(j) <= SquarePoints(k) => sizes_out[j] <= sizes_out[k]
          /\ pages_in[j].mediabox_size
                = <<pages_in[k].mediabox_size[2], pages_in[k].mediabox_size[1]>>
                   => sizes_out[j] = sizes_out[k]

\* C11 witness: a page of 79999 mm^2 is A4 and the rotation of a page of
\* 80000 mm^2 is A3.
C11_Witness ==
    /\ Len(sizes_out) = 2
    /\ pages_in[1].mediabox_size = <<768, 837>>
    /\ pages_in[2].mediabox_size = <<917, 701>>
    /\ AreaMm2(768, 837) = 79999
    /\ AreaMm2(917, 701) = 80000
    /\ sizes_out = <<A4, A3>>

RECURSIVE WeightedPages(_, _)
\* The pages `keys` of a map, each counted 1, 2, 4 or 8 times by its size.
WeightedPages(page_sizes, keys) ==
    IF keys = {} THEN 0
    ELSE LET k == CHOOSE key \in keys : TRUE
             weight == CASE page_sizes[k] = A4 -> 1
                         [] page_sizes[k] = A3 -> 2
                         [] page_sizes[k] = A2 -> 4
                         [] page_sizes[k] = A1 -> 8
         IN  weight + WeightedPages(page_sizes, keys \ {k})

\* C12: the A4 equivalent of a map is the sum over its pages of 1 for an A4
\* page, 2 for A3, 4 for A2 and 8 for A1; it is 0 for the empty map and 15 for
\* a map with one page of each size; the call leaves the map as it was.
C12_WeightedSum ==
    /\ [](a4_out # <<>> =>
            /\ a4_out[1] = WeightedPages(page_sizes_in, DOMAIN page_sizes_in)
            /\ DOMAIN page_sizes_in = {} => a4_out[1] = 0
            /\ (/\ Cardinality(DOMAIN page_sizes_in) = 4
                /\ {page_sizes_in[k] : k \in DOMAIN page_sizes_in} = PageSize)
                  => a4_out[1] = 15)
    /\ [][page_sizes_in' = page_sizes_in]_vars

\* C12 witness: the map {1: A4, 2: A3, 3: A2, 4: A1} has the A4 equivalent 15.
C12_Witness ==
    /\ a4_out = <<15>>
    /\ DOMAIN page_sizes_in = 1 .. 4
    /\ page_sizes_in[1] = A4
    /\ page_sizes_in[2] = A3
    /\ page_sizes_in[3] = A2
    /\ page_sizes_in[4] = A1

\* The last four characters of `name` are ".pdf" in some letter case.
HasPdfSuffix(name) ==
    /\ Len(name) >= 4
    /\ name[Len(name) - 3] = "."
    /\ name[Len(name) - 2] \in {"p", "P"}
    /\ name[Len(name) - 1] \in {"d", "D"}
    /\ name[Len(name)] \in {"f", "F"}

\* The number of entries of a listing whose names end in ".pdf".
PdfEntries(listing) == Cardinality({k \in DOMAIN listing : HasPdfSuffix(listing[k])})

\* C13: the selected names are exactly the entries of the listing that end in
\* ".pdf" in some letter case; the name in a progress message, the name of
\* the document being read and the name of a row, in the table and in a
\* written spreadsheet, end in ".pdf"; and N of the "i/N" messages is the
\* number of such entries.
C13_OnlyPdfSelected ==
    /\ \A t \in DOMAIN workers :
          LET w == workers[t]
          IN  /\ \A k \in DOMAIN w.filenames :
                    /\ HasPdfSuffix(w.filenames[k])
                    /\ \E e \in DOMAIN w.listing : w.listing[e] = w.filenames[k]
              /\ \A e \in DOMAIN w.listing :
                    HasPdfSuffix(w.listing[e]) =>
                        \E k \in DOMAIN w.filenames : w.filenames[k] = w.listing[e]
              /\ Len(w.filenames) = PdfEntries(w.listing)
              /\ \A m \in DOMAIN w.yielded :
                    w.yielded[m].kind = "file" =>
                        /\ HasPdfSuffix(w.yielded[m].name)
                        /\ w.yielded[m].total = PdfEntries(w.listing)
              /\ w.pc \in {"open", "check", "page", "append"} =>
                    HasPdfSuffix(w.filenames[w.i])
              /\ \A j \in DOMAIN w.data : HasPdfSuffix(w.data[j].name)
    /\ \A f \in DOMAIN xlsx :
          \A j \in DOMAIN xlsx[f].table : HasPdfSuffix(xlsx[f].table[j].name)

\* C13 witness: the folder holds n.txt and B.PDF; the run has yielded "1/1"
\* for B.PDF and written a table with the one row of B.PDF.
C13_Witness ==
    \E t \in DOMAIN workers :
        /\ workers[t].pc = "resume"
        /\ workers[t].listing = <<NameT, NameB>>
        /\ workers[t].yielded[1] = [kind |-> "file", i |-> 1, total |-> 1, name |-> NameB]
        /\ Len(xlsx[workers[t].output_file].table) = 1
        /\ xlsx[workers[t].output_file].table[1].name = NameB

\* The worker threads that have not returned from run_process.
LiveWorkers == {t \in DOMAIN workers : workers[t].alive}

\* C14: at most one worker thread is alive at any time, and no step taken
\* while a worker is alive starts a thread or replaces App.thread: a click on
\* the button then only sets the cancellation flag.
C14_OneScanAtATime ==
    /\ [](Cardinality(LiveWorkers) <= 1)
    /\ [][LiveWorkers # {} =>
            /\ Len(workers') = Len(workers)
            /\ thread' = thread
            /\ LiveWorkers' \subseteq LiveWorkers]_vars

\* C14 witness: the first worker is alive in the middle of a document, the
\* button has been clicked again, and there is still one thread.
C14_Witness ==
    /\ Len(workers) = 1
    /\ LiveWorkers = {1}
    /\ workers[1].pc = "page"
    /\ calcs[workers[1].calc].aborted
    /\ start_text = TextStop

\* C15: a step that takes a cancellation flag from true to false is the
\* per-page poll of a worker scanning with that instance, which has pages
\* left and raises the abort in the same step; and every abort is raised by
\* such a step, which finds the flag set and leaves it clear.
C15_ResetOnlyAtPoll ==
    [][/\ \A c \in DOMAIN calcs :
             (calcs[c].aborted /\ ~calcs'[c].aborted) =>
                 \E t \in DOMAIN workers :
                     /\ workers[t].calc = c
                     /\ workers[t].pc = "check"
                     /\ workers[t].page_num < workers[t].page_count
                     /\ workers'[t].pc = "raised"
       /\ \A t \in DOMAIN workers :
             (workers[t].pc # "raised" /\ workers'[t].pc = "raised") =>
                 /\ workers[t].pc = "check"
                 /\ calcs[workers[t].calc].aborted
                 /\ ~calcs'[workers[t].calc].aborted]_vars

\* C15 witness: the abort is raised at the second page of a document and the
\* flag of the instance is clear again.
C15_Witness ==
    \E t \in DOMAIN workers :
        /\ workers[t].pc = "raised"
        /\ workers[t].page_num = 1
        /\ ~calcs[workers[t].calc].aborted

\* The run of thread t has had its abort raised.
Aborting(t) == workers[t].pc = "raised" \/ workers[t].outcome = "Aborted"

\* C16: a run whose abort is raised has written no spreadsheet, has yielded
\* no "saved" message and has no completion on its way to the UI thread, and
\* once it has ended its rows are gone; the output folder and the
\* spreadsheets change only in the persistence step of a run, and a run that
\* has reached that step is never aborted.
C16_AbortedRunPersistsNothing ==
    /\ [](\A t \in DOMAIN workers :
            Aborting(t) =>
                /\ \A f \in DOMAIN xlsx : xlsx[f].written_by # t
                /\ workers[t].output_file = 0
                /\ \A m \in DOMAIN workers[t].yielded :
                      workers[t].yielded[m].kind = "file"
                /\ workers[t].status.kind = "file"
                /\ \A k \in DOMAIN ui_queue :
                      ui_queue[k].t = t => ui_queue[k].kind = "progress"
                /\ Ended(t) => workers[t].data = <<>>)
    /\ [][/\ (output_dir' # output_dir \/ xlsx' # xlsx) =>
                \E t \in DOMAIN workers :
                    /\ workers[t].pc = "persist"
                    /\ workers'[t].pc \in {"yield_final", "dead"}
       /\ \A t \in DOMAIN workers :
             workers[t].pc \in {"persist", "yield_final", "resume"} =>
                 ~(workers'[t].pc = "raised" \/ workers'[t].outcome = "Aborted")]_vars

\* C16 witness: a run aborted on its second document, with the row of the
\* first in its table, has ended; no folder and no spreadsheet exist.
C16_Witness ==
    \E t \in DOMAIN workers :
        /\ workers[t].outcome = "Aborted"
        /\ Ended(t)
        /\ workers[t].status.kind = "file"
        /\ workers[t].status.i = 2
        /\ ~output_dir
        /\ xlsx = <<>>

\* The interface is not busy: browse enabled, start label shown.
NotBusy == browse_button = "normal" /\ start_text = TextStart

\* C17: under fair scheduling, in a folder without read or persistence
\* failure, every run comes from the start of its thread to a state where it
\* has ended Completed or Aborted and the interface is not busy, whatever
\* stop() calls are made; and whenever every thread started has gone and no
\* callback is pending, the interface is not busy.
C17_RunTerminatesNotBusy ==
    /\ \A t \in 1 .. MaxRuns :
          (t \in DOMAIN workers /\ workers[t].pc = "run") ~>
              /\ t \in DOMAIN workers
              /\ Ended(t)
              /\ workers[t].outcome \in {"Completed", "Aborted"}
              /\ NotBusy
    /\ []((ui_queue = <<>> /\ \A t \in DOMAIN workers : workers[t].pc = "dead")
            => NotBusy)

\* C17 witness: a first run was aborted, a second run on the same instance
\* completed, both threads are gone and the interface is not busy.
C17_Witness ==
    /\ Len(workers) = 2
    /\ workers[1].outcome = "Aborted"
    /\ workers[2].outcome = "Completed"
    /\ workers[1].pc = "dead"
    /\ workers[2].pc = "dead"
    /\ ui_queue = <<>>
    /\ NotBusy

====
